---- MODULE Spec2Model ----
(***************************************************************************)
(* Highlight window selection of Videos-Clipping-Automation                *)
(* (highlight_detection.py): split_into_windows, score_windows,            *)
(* select_clips and detect_highlights as a state machine.                  *)
(*                                                                         *)
(* Times are whole seconds.  Transcript boundaries lie on a 20 s grid and  *)
(* window starts on even seconds, so every midpoint the code computes      *)
(* ((start + end) / 2) is a whole number and \div is exact.  Scores are    *)
(* integers; the threshold score >= mean + 0.5 * std is evaluated exactly, *)
(* without floating-point rounding.                                        *)
(*                                                                         *)
(* HighlightDetector (services/highlight_detector.py): detect and          *)
(* _process_highlights as a second state machine, SpecDetector.  Its       *)
(* scores are hundredths (0.45 is 45) and its durations are even whole     *)
(* seconds, so duration / 2 is exact.                                      *)
(*                                                                         *)
(* The upload session: VideoUploader.upload_to_youtube with its retry      *)
(* loops (SpecUploader), the background Rumble tasks of VideoUploader      *)
(* (SpecRumble), the per-video pipeline of main (SpecMain) and the         *)
(* StateManager with its signal handler (SpecManager).  Each is one record *)
(* variable; a thread's position is the pc field of its record.            *)
(***************************************************************************)
EXTENDS Integers, Sequences, FiniteSets

VARIABLES
    pc,               \* position of the running call
    entry,            \* function called from outside: detect_highlights or select_clips
    segments,         \* transcript: sequence of [start, end, ntoks]
    windows,          \* sequence of [start, end, score]
    quality_windows,  \* candidates of select_clips, in processing order
    i,                \* number of candidates the loop of select_clips has processed
    selected_clips,   \* clips accepted so far, <<start, end>>
    result,           \* value returned by the call (<<>> until it returns)
    requests,         \* requests made to the embedding collaborator, in order
    run,              \* 1 for the first call of select_clips, 2 for a repeated call
    first_result,     \* what the first call returned, kept by the caller
    hd_pc,            \* HighlightDetector: position of the running call
    hd_entry,         \* HighlightDetector: detect or _process_highlights
    hd_duration,      \* HighlightDetector: video_duration of the call
    highlights,       \* raw highlights: sequence of [start, end, score, type]
    valid_highlights, \* merged, clamped highlights of _process_highlights
    final_highlights, \* list the call returned
    youtube,          \* VideoUploader: YouTube side and the running upload_to_youtube call
    rumble,           \* VideoUploader: _rumble_tasks, their worker threads and callers
    session,          \* main: the session loop and the video it is processing
    manager           \* StateManager: flags, saved state, state_lock and the main thread

clip_vars == <<pc, entry, segments, windows, quality_windows, i, selected_clips,
               result, requests, run, first_result>>

detector_vars == <<hd_pc, hd_entry, hd_duration, highlights, valid_highlights,
                   final_highlights>>

session_vars == <<youtube, rumble, session, manager>>

vars == <<pc, entry, segments, windows, quality_windows, i, selected_clips,
          result, requests, run, first_result, hd_pc, hd_entry, hd_duration,
          highlights, valid_highlights, final_highlights, youtube, rumble,
          session, manager>>

\* ---------------------------------------------------------------- bounds
MaxTick == 6
MaxSegs == 2
MaxWindows == 3
LongWindows == 10

\* ------------------------------------------------------------- constants
TARGET_CLIP_SECONDS == 40
MIN_CLIP_SECONDS == 30
MAX_CLIP_SECONDS == 60
WINDOW_SIZE == 20
WINDOW_STEP == 10
NumPrompts == 5

\* --------------------------------------------------------------- helpers
Min(a, b) == IF a <= b THEN a ELSE b
Max(a, b) == IF a >= b THEN a ELSE b
SetMin(S) == CHOOSE x \in S : \A y \in S : x <= y
SetMax(S) == CHOOSE x \in S : \A y \in S : x >= y
Take(s, n) == SubSeq(s, 1, Min(n, Len(s)))

RECURSIVE SumScore(_)
SumScore(ws) ==
    IF ws = <<>> THEN 0 ELSE Head(ws).score + SumScore(Tail(ws))

RECURSIVE SumSqScore(_)
SumSqScore(ws) ==
    IF ws = <<>> THEN 0 ELSE Head(ws).score * Head(ws).score + SumSqScore(Tail(ws))

\* mutant of InsertByScore: equal scores end up in reverse order
InsertBeforeEqualScore(sorted, w) ==
    LET n == Cardinality({k \in 1..Len(sorted) : sorted[k].score > w.score})
    IN  SubSeq(sorted, 1, n) \o <<w>> \o SubSeq(sorted, n + 1, Len(sorted))

\* list.sort(key=score, reverse=True): stable, equal scores keep their order
InsertByScore(sorted, w) ==
    LET n == Cardinality({k \in 1..Len(sorted) : sorted[k].score >= w.score})
    IN  SubSeq(sorted, 1, n) \o <<w>> \o SubSeq(sorted, n + 1, Len(sorted))

RECURSIVE SortByScoreDesc(_)
SortByScoreDesc(ws) ==
    IF ws = <<>> THEN <<>>
    ELSE InsertByScore(SortByScoreDesc(SubSeq(ws, 1, Len(ws) - 1)), ws[Len(ws)])

\* selected_clips.sort(key=lambda x: x[0]): stable, ascending start
InsertByStart(sorted, c) ==
    LET n == Cardinality({k \in 1..Len(sorted) : sorted[k][1] <= c[1]})
    IN  SubSeq(sorted, 1, n) \o <<c>> \o SubSeq(sorted, n + 1, Len(sorted))

RECURSIVE SortByStart(_)
SortByStart(cs) ==
    IF cs = <<>> THEN <<>>
    ELSE InsertByStart(SortByStart(SubSeq(cs, 1, Len(cs) - 1)), cs[Len(cs)])

\* ------------------------------------------------------ split_into_windows
\* pseudo-word times: each segment's duration divided evenly over its tokens
RECURSIVE WordTimes(_)
WordTimes(segs) ==
    IF segs = <<>> THEN <<>>
    ELSE LET seg == Head(segs)
             dur == seg.end - seg.start
         IN  [k \in 1..seg.ntoks |-> seg.start + ((k - 1) * dur) \div seg.ntoks]
             \o WordTimes(Tail(segs))

RECURSIVE WindowsFrom(_, _, _)
WindowsFrom(start, t_end, words) ==
    IF ~(start < t_end) THEN <<>>
    ELSE LET end == start + WINDOW_SIZE
             txt == {k \in 1..Len(words) : start <= words[k] /\ words[k] < end}
             here == IF txt # {} THEN <<[start |-> start, end |-> end, score |-> 0]>>
                     ELSE <<>>
         IN  here \o WindowsFrom(start + WINDOW_STEP, t_end, words)

\* mutant of split_into_windows: the cursor stops one step before the last word
SplitStopsEarly(segs) ==
    LET words == WordTimes(segs)
    IN  IF words = <<>> THEN <<>>
        ELSE WindowsFrom(words[1], words[Len(words)] - WINDOW_STEP, words)

\* mutant of split_into_windows: a window is emitted although no word exists
SplitKeepsEmptyWindow(segs) ==
    LET words == WordTimes(segs)
    IN  IF words = <<>> THEN <<[start |-> 0, end |-> WINDOW_SIZE, score |-> 0]>>
        ELSE WindowsFrom(words[1], words[Len(words)], words)

split_into_windows(segs) ==
    LET words == WordTimes(segs)
    IN  IF words = <<>> THEN <<>>
        ELSE WindowsFrom(words[1], words[Len(words)], words)

\* ------------------------------------------------------------ select_clips
video_duration(segs) == SetMax({segs[k].end : k \in 1..Len(segs)})

\* mutant of AboveThreshold: the threshold is mean + 1.0 * std
AboveMeanPlusStd(w, ws) ==
    LET n == Len(ws)
        d == n * w.score - SumScore(ws)
        v == n * SumSqScore(ws) - SumScore(ws) * SumScore(ws)
    IN  d >= 0 /\ d * d >= v

\* score >= mean + 0.5 * std (population std), multiplied through by n:
\* n*score - sum >= 0.5 * sqrt(n*sumsq - sum^2)
AboveThreshold(w, ws) ==
    LET n == Len(ws)
        d == n * w.score - SumScore(ws)
        v == n * SumSqScore(ws) - SumScore(ws) * SumScore(ws)
    IN  d >= 0 /\ 4 * d * d >= v

\* mutant of TopFallback: no fallback to the highest-scoring windows
NoFallback(ws) == <<>>

TopFallback(ws) == Take(SortByScoreDesc(ws), Max(1, Len(ws) \div 5))

QualityWindows(ws) ==
    LET above == SelectSeq(ws, LAMBDA w : AboveThreshold(w, ws))
        pool == IF above = <<>> THEN TopFallback(ws) ELSE above
    IN  SortByScoreDesc(pool)

min_gap_seconds == (TARGET_CLIP_SECONDS * 12) \div 10

TentativeClip(w, vd) ==
    LET window_center == (w.start + w.end) \div 2
        clip_start == Max(0, window_center - TARGET_CLIP_SECONDS \div 2)
        clip_end == Min(vd, clip_start + TARGET_CLIP_SECONDS)
    IN  IF clip_end > vd
        THEN <<Max(0, vd - TARGET_CLIP_SECONDS), vd>>
        ELSE <<clip_start, clip_end>>

\* mutant of HasSufficientGap: clips must not overlap, no minimum gap
GapWithoutMinimum(clip, clips) ==
    \A k \in 1..Len(clips) :
        LET gap_before == clip[1] - clips[k][2]
            gap_after == clips[k][1] - clip[2]
        IN  gap_before >= 0 \/ gap_after >= 0

\* mutant of HasSufficientGap: the gap check is skipped
NoGapCheck(clip, clips) == TRUE

HasSufficientGap(clip, clips) ==
    \A k \in 1..Len(clips) :
        LET gap_before == clip[1] - clips[k][2]
            gap_after == clips[k][1] - clip[2]
        IN  gap_before >= min_gap_seconds \/ gap_after >= min_gap_seconds

OverlappingSegs(clip, segs) ==
    {k \in 1..Len(segs) : segs[k].end > clip[1] /\ segs[k].start < clip[2]}

\* span of the segments within 3 s of the overlapping segments' span; the
\* overlapping segments are among them, so extended_segs is never empty
SnapToSegments(clip, segs) ==
    LET over == OverlappingSegs(clip, segs)
        seg_start == SetMin({segs[k].start : k \in over})
        seg_end == SetMax({segs[k].end : k \in over})
        extended == {k \in 1..Len(segs) :
                        segs[k].start >= seg_start - 3 /\ segs[k].end <= seg_end + 3}
    IN  <<SetMin({segs[k].start : k \in extended}), SetMax({segs[k].end : k \in extended})>>

\* mutant of ClampDuration: a long span is cut to MAX_CLIP_SECONDS, and a
\* short one is extended past the video end
ClampToMaximum(snapped, vd) ==
    LET final_start == snapped[1]
        final_end == snapped[2]
        duration == final_end - final_start
    IN  IF duration < MIN_CLIP_SECONDS
        THEN LET center == (final_start + final_end) \div 2
                 s == Max(0, center - TARGET_CLIP_SECONDS \div 2)
             IN  <<s, s + TARGET_CLIP_SECONDS>>
        ELSE IF duration > MAX_CLIP_SECONDS
        THEN <<final_start, final_start + MAX_CLIP_SECONDS>>
        ELSE <<final_start, final_end>>

\* mutant of ClampDuration: a span longer than MAX_CLIP_SECONDS is kept
ClampWithoutTruncate(snapped, vd) ==
    LET final_start == snapped[1]
        final_end == snapped[2]
        duration == final_end - final_start
    IN  IF duration < MIN_CLIP_SECONDS
        THEN LET center == (final_start + final_end) \div 2
                 s == Max(0, center - TARGET_CLIP_SECONDS \div 2)
             IN  <<s, Min(vd, s + TARGET_CLIP_SECONDS)>>
        ELSE <<final_start, final_end>>

\* mutant of ClampDuration: the re-centred clip is not cut at the video end
ClampWithoutVideoEnd(snapped, vd) ==
    LET final_start == snapped[1]
        final_end == snapped[2]
        duration == final_end - final_start
    IN  IF duration < MIN_CLIP_SECONDS
        THEN LET center == (final_start + final_end) \div 2
                 s == Max(0, center - TARGET_CLIP_SECONDS \div 2)
             IN  <<s, s + TARGET_CLIP_SECONDS>>
        ELSE IF duration > MAX_CLIP_SECONDS
        THEN <<final_start, final_start + TARGET_CLIP_SECONDS>>
        ELSE <<final_start, final_end>>

ClampDuration(snapped, vd) ==
    LET final_start == snapped[1]
        final_end == snapped[2]
        duration == final_end - final_start
    IN  IF duration < MIN_CLIP_SECONDS
        THEN LET center == (final_start + final_end) \div 2
                 s == Max(0, center - TARGET_CLIP_SECONDS \div 2)
             IN  <<s, Min(vd, s + TARGET_CLIP_SECONDS)>>
        ELSE IF duration > MAX_CLIP_SECONDS
        THEN <<final_start, final_start + TARGET_CLIP_SECONDS>>
        ELSE <<final_start, final_end>>

\* the clips one loop iteration appends for candidate w: none or one
ClipsFor(w, segs, clips) ==
    LET vd == video_duration(segs)
        clip == TentativeClip(w, vd)
    IN  IF ~HasSufficientGap(clip, clips) THEN <<>>
        ELSE IF OverlappingSegs(clip, segs) = {} THEN <<>>
        ELSE LET final == ClampDuration(SnapToSegments(clip, segs), vd)
             IN  IF final[2] - final[1] >= MIN_CLIP_SECONDS THEN <<final>> ELSE <<>>

\* mutant of InitialClips: the accepted list outlives the call
StaleClips == selected_clips

\* selected_clips = [] at the start of every call
InitialClips == <<>>

\* mutant of SortedClips: the clips are returned in acceptance order
UnsortedClips(clips) == clips

\* selected_clips.sort(key=lambda x: x[0]) before the return
SortedClips(clips) == SortByStart(clips)

\* ------------------------------------------------------------------ inputs
SegTimes == {20 * k : k \in 0..MaxTick}

\* three score levels: 6 and 7 both reach mean + 0.5 * std next to one window
\* scored 1, so candidates of different scores occur among three windows
Scores == {1, 6, 7}

\* transcripts as the transcription collaborator delivers them: ordered by
\* start, start <= end, no overlap; toks is the set of token counts drawn
Segs(toks) ==
    {seg \in [start : SegTimes, end : SegTimes, ntoks : toks] : seg.start <= seg.end}

Transcripts(toks) ==
    UNION {{t \in [1..n -> Segs(toks)] : \A k \in 1..(n - 1) : t[k].end <= t[k + 1].start}
           : n \in 0..MaxSegs}

\* window lists for a direct call of select_clips: chronological, each
\* WINDOW_SIZE long; 104 is the window 4 s after the one at 100
WinStarts == {20 * k : k \in 0..MaxTick} \cup {104}

\* score vectors the scorer may assign: all windows equal but at most one
ScoreVectors(n) ==
    {[k \in 1..n |-> IF k = odd THEN s2 ELSE s1] : odd \in 0..n, s1 \in Scores, s2 \in Scores}

\* the windows of an unbroken transcript, one every WINDOW_STEP from 0, long
\* enough for len(windows) // 5 to exceed 1
LongWindowLists ==
    {[k \in 1..LongWindows |-> [start |-> WINDOW_STEP * (k - 1), end |-> 0, score |-> sc[k]]]
        : sc \in ScoreVectors(LongWindows)}

WindowLists ==
    LongWindowLists \cup
    UNION {{ws \in [1..n -> [start : WinStarts, end : {0}, score : Scores]] :
               \A k \in 1..(n - 1) : ws[k].start < ws[k + 1].start}
           : n \in 0..MaxWindows}

WithEnds(ws) == [k \in 1..Len(ws) |-> [ws[k] EXCEPT !.end = ws[k].start + WINDOW_SIZE]]

\* ----------------------------------------------- state of an upload session
\* VideoUploader.__init__: no YouTube service yet, no quota error seen
NewYoutube ==
    [pc |-> "new", youtube_initialized |-> FALSE, youtube_max_retries |-> 3,
     youtube_quota_exceeded |-> FALSE, attempt |-> 0, upload_attempts |-> 0,
     result |-> "none", last_error |-> "none", calls |-> 0]

\* threads that call start_rumble_upload_background
Callers == {"main", "other"}

\* None as get_rumble_task_status returns it for an unknown task id
NoTask ==
    [id |-> 0, status |-> "None", result_url |-> "None", error |-> "None",
     finished_at |-> "None"]

\* VideoUploader.__init__: no task, counter 0, _rumble_tasks_lock free; no
\* caller is inside start_rumble_upload_background, no worker thread exists,
\* and the reader of get_rumble_task_status holds nothing
NewRumble ==
    [_rumble_task_counter |-> 0, _rumble_tasks |-> <<>>, lock |-> "free",
     callers |-> [c \in Callers |-> [pc |-> "idle", task_id |-> 0]],
     started |-> <<>>, workers |-> <<>>,
     reader |-> [pc |-> "idle", task_id |-> 0, status |-> NoTask]]

\* main before cfg = config.Config(): nothing processed, marked or deleted
NewSession ==
    [pc |-> "new", RUMBLE_UPLOAD_ASYNC |-> TRUE, CLEANUP_DELETE_BRANDED |-> TRUE,
     CLEANUP_DELETE_ORIGINAL_DOWNLOAD |-> TRUE, processed_count |-> 0,
     rumble_task_id |-> 0, clips |-> 0, clip |-> 0, uploaded_count |-> 0,
     status_reads |-> 0, status |-> "None", rumble_success |-> TRUE,
     overall_success |-> FALSE, used_videos |-> {}, deleted_branded |-> {},
     deleted_original |-> {}]

\* StateManager before __init__ has run: status 'idle', no shutdown requested,
\* state_lock free, no signal handler running
NewManager ==
    [pc |-> "new", method |-> "None", state_lock |-> "free",
     shutdown_requested |-> FALSE, status |-> "idle", current_step |-> "None",
     saved_status |-> "None", handler |-> "none", signals |-> 0]

\* ------------------------------------------------------------------- state
Init ==
    /\ pc = "idle"
    /\ entry = "none"
    /\ segments = <<>>
    /\ windows = <<>>
    /\ quality_windows = <<>>
    /\ i = 0
    /\ selected_clips = <<>>
    /\ result = <<>>
    /\ requests = <<>>
    /\ run = 1
    /\ first_result = <<>>
    /\ hd_pc = "idle"
    /\ hd_entry = "none"
    /\ hd_duration = 0
    /\ highlights = <<>>
    /\ valid_highlights = <<>>
    /\ final_highlights = <<>>
    /\ youtube = NewYoutube
    /\ rumble = NewRumble
    /\ session = NewSession
    /\ manager = NewManager

\* a caller invokes select_clips(windows, segments) directly
CallSelectClips ==
    /\ pc = "idle"
    /\ \E ws \in WindowLists, segs \in Transcripts({1}) :
          /\ windows' = WithEnds(ws)
          /\ segments' = segs
    /\ entry' = "select_clips"
    /\ pc' = "select"
    /\ UNCHANGED <<quality_windows, i, selected_clips, result, requests, run, first_result>>
    /\ UNCHANGED <<detector_vars, session_vars>>

\* select_clips up to the loop: empty-segment return, threshold, sort
SelectBegin ==
    /\ pc = "select"
    /\ IF segments = <<>>
       THEN /\ result' = <<>>
            /\ pc' = "done"
            /\ UNCHANGED <<quality_windows, i, selected_clips>>
       ELSE /\ quality_windows' = QualityWindows(windows)
            /\ selected_clips' = InitialClips
            /\ i' = 0
            /\ pc' = "loop"
            /\ UNCHANGED result
    /\ UNCHANGED <<entry, segments, windows, requests, run, first_result>>
    /\ UNCHANGED <<detector_vars, session_vars>>

\* one iteration of the loop over quality_windows
SelectStep ==
    /\ pc = "loop"
    /\ i < Len(quality_windows)
    /\ i' = i + 1
    /\ selected_clips' = selected_clips \o ClipsFor(quality_windows[i + 1], segments, selected_clips)
    /\ UNCHANGED <<pc, entry, segments, windows, quality_windows, result, requests, run, first_result>>
    /\ UNCHANGED <<detector_vars, session_vars>>

\* after the loop: sort by start and return
SelectReturn ==
    /\ pc = "loop"
    /\ i = Len(quality_windows)
    /\ selected_clips' = SortedClips(selected_clips)
    /\ result' = SortedClips(selected_clips)
    /\ pc' = "done"
    /\ UNCHANGED <<entry, segments, windows, quality_windows, i, requests, run, first_result>>
    /\ UNCHANGED <<detector_vars, session_vars>>

\* the caller keeps the first result and calls select_clips again on the same input
Rerun ==
    /\ pc = "done"
    /\ entry = "select_clips"
    /\ run = 1
    /\ run' = 2
    /\ first_result' = result
    /\ result' = <<>>
    /\ pc' = "select"
    /\ UNCHANGED <<entry, segments, windows, quality_windows, i, selected_clips, requests>>
    /\ UNCHANGED <<detector_vars, session_vars>>

\* detect_highlights: transcribe_video and the empty-transcript return
TranscribeVideo ==
    /\ pc = "idle"
    /\ \E segs \in Transcripts({0, 1, 2}) :
          /\ segments' = segs
          /\ IF segs = <<>> THEN pc' = "done" ELSE pc' = "split"
    /\ entry' = "detect_highlights"
    /\ result' = <<>>
    /\ UNCHANGED <<windows, quality_windows, i, selected_clips, requests, run, first_result>>
    /\ UNCHANGED <<detector_vars, session_vars>>

\* detect_highlights: split_into_windows and the no-window return
SplitIntoWindows ==
    /\ pc = "split"
    /\ windows' = split_into_windows(segments)
    /\ IF split_into_windows(segments) = <<>>
       THEN /\ pc' = "done"
            /\ result' = <<>>
       ELSE /\ pc' = "score"
            /\ UNCHANGED result
    /\ UNCHANGED <<entry, segments, quality_windows, i, selected_clips, requests, run, first_result>>
    /\ UNCHANGED <<detector_vars, session_vars>>

\* mutant of ScoreNoKey: a missing key degrades to an empty result
ScoreNoKeyReturnsEmpty ==
    /\ pc = "score"
    /\ pc' = "done"
    /\ result' = <<>>
    /\ UNCHANGED <<entry, segments, windows, quality_windows, i, selected_clips,
                   requests, run, first_result>>
    /\ UNCHANGED <<detector_vars, session_vars>>

\* score_windows: OPENAI_API_KEY is not set
ScoreNoKey ==
    /\ pc = "score"
    /\ pc' = "raised"
    /\ UNCHANGED <<entry, segments, windows, quality_windows, i, selected_clips, result,
                   requests, run, first_result>>
    /\ UNCHANGED <<detector_vars, session_vars>>

PromptRequest == [input |-> "prompts", n |-> NumPrompts]
TextRequest(ws) == [input |-> "texts", n |-> Len(ws)]

\* score_windows: the batch of archetype prompts; the request may fail
EmbedPrompts ==
    /\ pc = "score"
    /\ requests' = Append(requests, PromptRequest)
    /\ \E ok \in BOOLEAN : pc' = IF ok THEN "embed_texts" ELSE "raised"
    /\ UNCHANGED <<entry, segments, windows, quality_windows, i, selected_clips, result,
                   run, first_result>>
    /\ UNCHANGED <<detector_vars, session_vars>>

\* mutant of EmbedTexts: one embedding request per window text
EmbedTextsPerWindow ==
    /\ pc = "embed_texts"
    /\ requests' = requests \o [k \in 1..Len(windows) |-> [input |-> "texts", n |-> 1]]
    /\ \/ /\ pc' = "raised"
          /\ UNCHANGED windows
       \/ /\ pc' = "select"
          /\ \E sc \in ScoreVectors(Len(windows)) :
                windows' = [k \in 1..Len(windows) |-> [windows[k] EXCEPT !.score = sc[k]]]
    /\ UNCHANGED <<entry, segments, quality_windows, i, selected_clips, result, run, first_result>>
    /\ UNCHANGED <<detector_vars, session_vars>>

\* score_windows: the batch of window texts, then the scores are written
EmbedTexts ==
    /\ pc = "embed_texts"
    /\ requests' = Append(requests, TextRequest(windows))
    /\ \/ /\ pc' = "raised"
          /\ UNCHANGED windows
       \/ /\ pc' = "select"
          /\ \E sc \in ScoreVectors(Len(windows)) :
                windows' = [k \in 1..Len(windows) |-> [windows[k] EXCEPT !.score = sc[k]]]
    /\ UNCHANGED <<entry, segments, quality_windows, i, selected_clips, result, run, first_result>>
    /\ UNCHANGED <<detector_vars, session_vars>>

\* one call of detect_highlights or of select_clips
Next ==
    \/ CallSelectClips
    \/ SelectBegin
    \/ SelectStep
    \/ SelectReturn
    \/ TranscribeVideo
    \/ SplitIntoWindows
    \/ ScoreNoKey
    \/ EmbedPrompts
    \/ EmbedTexts

Spec == Init /\ [][Next]_vars

\* the same, with select_clips called a second time on the same arguments
NextRepeat ==
    \/ CallSelectClips
    \/ SelectBegin
    \/ SelectStep
    \/ SelectReturn
    \/ Rerun
    \/ TranscribeVideo
    \/ SplitIntoWindows
    \/ ScoreNoKey
    \/ EmbedPrompts
    \/ EmbedTexts

SpecRepeat == Init /\ [][NextRepeat]_vars

\* ------------------------------------------------------- HighlightDetector
\* bounds of the detector's inputs
MaxPeaks == 9
MaxProposals == 2

Highlight(s, e, sc, ty) == [start |-> s, end |-> e, score |-> sc, type |-> ty]

\* mutant of EvenlySpaced: the windows start at 0
EvenlySpacedFromZero(duration, length, stride) ==
    IF duration <= 0 THEN <<>>
    ELSE LET last_start == Max(10, duration - length - 5)
             n == (last_start - 10) \div stride + 1
         IN  [k \in 1..n |-> Highlight((k - 1) * stride, (k - 1) * stride + length,
                                       45, "fallback")]

\* _generate_evenly_spaced_highlights: windows from 10 s on, every stride,
\* while t <= last_start
EvenlySpaced(duration, length, stride) ==
    IF duration <= 0 THEN <<>>
    ELSE LET last_start == Max(10, duration - length - 5)
             n == (last_start - 10) \div stride + 1
         IN  [k \in 1..n |-> Highlight(10 + (k - 1) * stride,
                                       10 + (k - 1) * stride + length, 45, "fallback")]

\* mutant of CreateFallbackWithDuration: nothing is produced
CreateNoFallback(duration) == <<>>

\* _create_fallback_highlights_with_duration
CreateFallbackWithDuration(duration) ==
    IF duration < 120
    THEN <<Highlight(10, Min(duration - 5, 28), 50, "fallback")>>
    ELSE IF duration < 600
    THEN <<Highlight(30, 30 + 28, 60, "fallback"),
           Highlight(duration \div 2, duration \div 2 + 30, 60, "fallback")>>
    ELSE EvenlySpaced(duration, 28, 110)

\* sorted(highlights, key=lambda x: x['start']): stable
InsertByStartKey(sorted, h) ==
    LET n == Cardinality({k \in 1..Len(sorted) : sorted[k].start <= h.start})
    IN  SubSeq(sorted, 1, n) \o <<h>> \o SubSeq(sorted, n + 1, Len(sorted))

RECURSIVE SortByStartKey(_)
SortByStartKey(hs) ==
    IF hs = <<>> THEN <<>>
    ELSE InsertByStartKey(SortByStartKey(SubSeq(hs, 1, Len(hs) - 1)), hs[Len(hs)])

\* mutant of MergeInto: the merged highlight takes the end of the later one
MergeIntoTakingLaterEnd(merged, current) ==
    IF merged = <<>> THEN <<current>>
    ELSE LET last_merged == merged[Len(merged)]
         IN  IF current.start <= last_merged.end + 10
             THEN [merged EXCEPT ![Len(merged)] =
                      Highlight(last_merged.start,
                                current.end,
                                Max(last_merged.score, current.score),
                                "merged")]
             ELSE Append(merged, current)

\* one iteration of the merge loop: current joins the last merged highlight
\* when it starts within 10 s of its end
MergeInto(merged, current) ==
    IF merged = <<>> THEN <<current>>
    ELSE LET last_merged == merged[Len(merged)]
         IN  IF current.start <= last_merged.end + 10
             THEN [merged EXCEPT ![Len(merged)] =
                      Highlight(last_merged.start,
                                Max(last_merged.end, current.end),
                                Max(last_merged.score, current.score),
                                "merged")]
             ELSE Append(merged, current)

RECURSIVE MergeSorted(_)
MergeSorted(hs) ==
    IF hs = <<>> THEN <<>>
    ELSE MergeInto(MergeSorted(SubSeq(hs, 1, Len(hs) - 1)), hs[Len(hs)])

\* _merge_overlapping_highlights
merge_overlapping_highlights(hs) == MergeSorted(SortByStartKey(hs))

\* the bounds loop of _process_highlights: clamp to [0, duration - 5], keep
\* what is at least 20 s long, cut what is longer than 60 s to 55 s
RECURSIVE WithinBounds(_, _)
WithinBounds(merged, duration) ==
    IF merged = <<>> THEN <<>>
    ELSE LET h == Head(merged)
             start == Max(0, h.start)
             end == Min(duration - 5, h.end)
             kept == IF end - start >= 20
                     THEN <<Highlight(start, IF end - start > 60 THEN start + 55 ELSE end,
                                      h.score, h.type)>>
                     ELSE <<>>
         IN  kept \o WithinBounds(Tail(merged), duration)

\* valid_highlights before the top-up: merged, clamped, sorted best first
ValidHighlights(raw, duration) ==
    SortByScoreDesc(WithinBounds(merge_overlapping_highlights(raw), duration))

desired_max(duration) == Min(100, Max(8, duration \div 120))

\* mutant of overlaps: no two highlights are too close
NeverOverlaps(a, b) == FALSE

overlaps(a, b) == ~(a.end <= b.start + 5 \/ b.end <= a.start + 5)

\* the admission loop: a fallback window is selected unless it overlaps an
\* existing highlight or a window selected before it; stops at needed
RECURSIVE SelectFallback(_, _, _, _)
SelectFallback(fallback, existing, selected, needed) ==
    IF fallback = <<>> THEN selected
    ELSE LET h == Head(fallback)
             too_close == \E k \in 1..Len(existing) : overlaps(h, existing[k])
             sel == IF too_close THEN selected ELSE Append(selected, h)
             ex == IF too_close THEN existing ELSE Append(existing, h)
         IN  IF Len(sel) >= needed THEN sel
             ELSE SelectFallback(Tail(fallback), ex, sel, needed)

\* mutant of TopUp: fallback windows are admitted whatever the count
TopUpAlways(valid, duration) ==
    valid \o SelectFallback(EvenlySpaced(duration, 28, 110), valid, <<>>,
                            Max(1, desired_max(duration) - Len(valid)))

\* valid_highlights after the top-up with evenly spaced fallbacks
TopUp(valid, duration) ==
    IF Len(valid) < desired_max(duration)
    THEN valid \o SelectFallback(EvenlySpaced(duration, 28, 110), valid, <<>>,
                                 desired_max(duration) - Len(valid))
    ELSE valid

\* mutant of InsertByScoreThenStart: the final sort is by start alone
InsertChronologically(sorted, h) ==
    LET n == Cardinality({k \in 1..Len(sorted) : sorted[k].start <= h.start})
    IN  SubSeq(sorted, 1, n) \o <<h>> \o SubSeq(sorted, n + 1, Len(sorted))

\* valid_highlights.sort(key=lambda x: (-score, start)): stable
InsertByScoreThenStart(sorted, h) ==
    LET n == Cardinality({k \in 1..Len(sorted) :
                 \/ sorted[k].score > h.score
                 \/ sorted[k].score = h.score /\ sorted[k].start <= h.start})
    IN  SubSeq(sorted, 1, n) \o <<h>> \o SubSeq(sorted, n + 1, Len(sorted))

RECURSIVE SortByScoreThenStart(_)
SortByScoreThenStart(hs) ==
    IF hs = <<>> THEN <<>>
    ELSE InsertByScoreThenStart(SortByScoreThenStart(SubSeq(hs, 1, Len(hs) - 1)), hs[Len(hs)])

\* valid_highlights[:desired_max]
CapToDesired(hs, duration) == Take(hs, desired_max(duration))

\* the windows of the AI answer that survive the clamp to [0, duration - 1]
\* and the 10..55 s length rule; at most 40
RECURSIVE AIResults(_, _)
AIResults(proposals, duration) ==
    IF proposals = <<>> THEN <<>>
    ELSE LET w == Head(proposals)
             s == Max(0, w[1])
             e == Min(duration - 1, w[2])
             here == IF e > s /\ e - s >= 10 /\ e - s <= 55
                     THEN <<Highlight(s, e, 90, "ai")>> ELSE <<>>
         IN  here \o AIResults(Tail(proposals), duration)

detect_with_ai_transcript(proposals, duration) == Take(AIResults(proposals, duration), 40)

\* _parse_audio_activity: the one window the audio analysis reports
parse_audio_activity == <<Highlight(60, 115, 70, "audio")>>

\* _detect_motion_peaks: a window from 12 s before to 16 s after each scene
\* change; at most 60
detect_motion_peaks(timestamps) ==
    Take([k \in 1..Len(timestamps) |->
             Highlight(Max(0, timestamps[k] - 12), timestamps[k] + 16, 75, "motion")], 60)

\* ------------------------------------------------- inputs of the detector
\* durations ffprobe may report; 600 is also the default when it fails
Durations == {0, 20, 40, 42, 44, 60, 100, 300, 600, 1000, 1210}

\* windows the language model may propose, as <<start, end>>
ProposalWindows == {<<-5, 30>>, <<200, 255>>, <<480, 600>>, <<950, 1000>>}

Proposals ==
    UNION {[1..n -> ProposalWindows] : n \in 0..MaxProposals}

\* scene-change timestamps in the order ffmpeg prints them
SceneChanges(duration) ==
    {SelectSeq([k \in 1..n |-> first + (k - 1) * step], LAMBDA t : t < duration)
        : n \in 0..MaxPeaks, first \in {12, 500}, step \in {20, 40}}

\* raw lists as detect assembles them: AI, then audio, then motion
RawHighlights(duration) ==
    {detect_with_ai_transcript(p, duration) \o a \o detect_motion_peaks(m)
        : p \in Proposals, a \in {<<>>, parse_audio_activity}, m \in SceneChanges(duration)}

\* ------------------------------------------------ actions of the detector
\* detect: _get_video_duration and the too-short return
DetectBegin ==
    /\ hd_pc = "idle"
    /\ hd_entry' = "detect"
    /\ \E d \in Durations :
          /\ hd_duration' = d
          /\ hd_pc' = IF d < 60 THEN "done" ELSE "ai"
    /\ final_highlights' = <<>>
    /\ UNCHANGED <<highlights, valid_highlights>>
    /\ UNCHANGED <<clip_vars, session_vars>>

\* detect: the AI path; a failure leaves the list as it is
DetectAI ==
    /\ hd_pc = "ai"
    /\ \/ UNCHANGED highlights
       \/ \E p \in Proposals :
             highlights' = highlights \o detect_with_ai_transcript(p, hd_duration)
    /\ hd_pc' = "audio"
    /\ UNCHANGED <<hd_entry, hd_duration, valid_highlights, final_highlights>>
    /\ UNCHANGED <<clip_vars, session_vars>>

\* detect: _detect_audio_peaks returns [] when ffmpeg cannot be run
DetectAudio ==
    /\ hd_pc = "audio"
    /\ \E a \in {<<>>, parse_audio_activity} : highlights' = highlights \o a
    /\ hd_pc' = "motion"
    /\ UNCHANGED <<hd_entry, hd_duration, valid_highlights, final_highlights>>
    /\ UNCHANGED <<clip_vars, session_vars>>

\* detect: _detect_motion_peaks returns [] when ffmpeg cannot be run
DetectMotion ==
    /\ hd_pc = "motion"
    /\ \/ UNCHANGED highlights
       \/ \E m \in SceneChanges(hd_duration) :
             highlights' = highlights \o detect_motion_peaks(m)
    /\ hd_pc' = "process"
    /\ UNCHANGED <<hd_entry, hd_duration, valid_highlights, final_highlights>>
    /\ UNCHANGED <<clip_vars, session_vars>>

\* a caller invokes _process_highlights(raw_highlights, video_duration)
CallProcessHighlights ==
    /\ hd_pc = "idle"
    /\ hd_entry' = "_process_highlights"
    /\ \E d \in Durations :
          /\ hd_duration' = d
          /\ highlights' \in RawHighlights(d)
    /\ hd_pc' = "process"
    /\ UNCHANGED <<valid_highlights, final_highlights>>
    /\ UNCHANGED <<clip_vars, session_vars>>

\* _process_highlights up to the sort by score: the empty-list return,
\* merge, bounds
ProcessBegin ==
    /\ hd_pc = "process"
    /\ IF highlights = <<>>
       THEN /\ final_highlights' = CreateFallbackWithDuration(hd_duration)
            /\ hd_pc' = "done"
            /\ UNCHANGED valid_highlights
       ELSE /\ valid_highlights' = ValidHighlights(highlights, hd_duration)
            /\ hd_pc' = "top_up"
            /\ UNCHANGED final_highlights
    /\ UNCHANGED <<hd_entry, hd_duration, highlights>>
    /\ UNCHANGED <<clip_vars, session_vars>>

\* _process_highlights from the top-up to the return
ProcessFinish ==
    /\ hd_pc = "top_up"
    /\ valid_highlights' = SortByScoreThenStart(TopUp(valid_highlights, hd_duration))
    /\ final_highlights' =
          CapToDesired(SortByScoreThenStart(TopUp(valid_highlights, hd_duration)), hd_duration)
    /\ hd_pc' = "done"
    /\ UNCHANGED <<hd_entry, hd_duration, highlights>>
    /\ UNCHANGED <<clip_vars, session_vars>>

\* a caller invokes _generate_evenly_spaced_highlights(duration) with the defaults
CallGenerateEvenlySpaced ==
    /\ hd_pc = "idle"
    /\ hd_entry' = "_generate_evenly_spaced_highlights"
    /\ \E d \in Durations :
          /\ hd_duration' = d
          /\ final_highlights' = EvenlySpaced(d, 28, 110)
    /\ hd_pc' = "done"
    /\ UNCHANGED <<highlights, valid_highlights>>
    /\ UNCHANGED <<clip_vars, session_vars>>

\* a caller invokes _merge_overlapping_highlights(highlights)
CallMergeOverlapping ==
    /\ hd_pc = "idle"
    /\ hd_entry' = "_merge_overlapping_highlights"
    /\ \E d \in Durations :
          /\ hd_duration' = d
          /\ \E hs \in RawHighlights(d) :
                /\ highlights' = hs
                /\ final_highlights' = merge_overlapping_highlights(hs)
    /\ hd_pc' = "done"
    /\ UNCHANGED valid_highlights
    /\ UNCHANGED <<clip_vars, session_vars>>

\* one call of detect, of _process_highlights or of one of its helpers
NextDetector ==
    \/ CallGenerateEvenlySpaced
    \/ CallMergeOverlapping
    \/ DetectBegin
    \/ DetectAI
    \/ DetectAudio
    \/ DetectMotion
    \/ CallProcessHighlights
    \/ ProcessBegin
    \/ ProcessFinish

SpecDetector == Init /\ [][NextDetector]_vars

\* --------------------------------------------- VideoUploader: YouTube side
MaxRetries == 3
MaxCalls == 3

\* values of YOUTUBE_UPLOAD_MAX_RETRIES the configuration can hold
RetrySettings == 0 .. MaxRetries

\* attempts = max(1, self.youtube_max_retries)
attempts == Max(1, youtube.youtube_max_retries)

\* the session object is built: __init__ reads the configuration, the
\* YouTube client is initialised or fails to be
YoutubeConstruct ==
    /\ youtube.pc = "new"
    /\ \E r \in RetrySettings, ok \in BOOLEAN :
        youtube' = [youtube EXCEPT !.pc = "idle", !.youtube_max_retries = r,
                                   !.youtube_initialized = ok]
    /\ UNCHANGED <<clip_vars, detector_vars, rumble, session, manager>>

\* what a failed attempt of upload_to_youtube leads to when the message
\* does not mention the quota: a retry after the backoff sleep while
\* attempts remain, otherwise the exception reaches the outer handler
AttemptFailed(y, error) ==
    IF y.attempt < Max(1, y.youtube_max_retries)
    THEN [y EXCEPT !.pc = "backoff", !.last_error = error]
    ELSE [y EXCEPT !.pc = "returned", !.result = FALSE, !.last_error = error]

\* upload_to_youtube is called: the two checks before the retry loop
CallUploadToYoutube ==
    /\ youtube.pc \in {"idle", "returned"}
    /\ youtube.calls < MaxCalls
    /\ youtube' =
        IF ~youtube.youtube_initialized \/ youtube.youtube_quota_exceeded
        THEN [youtube EXCEPT !.pc = "returned", !.result = FALSE,
                             !.attempt = 0, !.upload_attempts = 0,
                             !.calls = @ + 1]
        ELSE [youtube EXCEPT !.pc = "attempt", !.result = "none",
                             !.attempt = 1, !.upload_attempts = 0,
                             !.calls = @ + 1]
    /\ UNCHANGED <<clip_vars, detector_vars, rumble, session, manager>>

\* one pass of the retry loop reaches _execute_youtube_upload
AttemptUpload ==
    /\ youtube.pc = "attempt"
    /\ youtube' = [youtube EXCEPT !.pc = "next_chunk", !.upload_attempts = @ + 1]
    /\ UNCHANGED <<clip_vars, detector_vars, rumble, session, manager>>

\* rate limiting or metadata preparation raises before the upload starts
AttemptPrepareError ==
    /\ youtube.pc = "attempt"
    /\ youtube' = AttemptFailed(youtube, "prepare")
    /\ UNCHANGED <<clip_vars, detector_vars, rumble, session, manager>>

\* next_chunk returns the response of the finished upload
ChunkResponse ==
    /\ youtube.pc = "next_chunk"
    /\ youtube' = [youtube EXCEPT !.pc = "returned", !.result = TRUE,
                                  !.last_error = "none"]
    /\ UNCHANGED <<clip_vars, detector_vars, rumble, session, manager>>

\* next_chunk returns an empty response: "Upload returned no result"
ChunkEmptyResponse ==
    /\ youtube.pc = "next_chunk"
    /\ youtube' = AttemptFailed(youtube, "no result")
    /\ UNCHANGED <<clip_vars, detector_vars, rumble, session, manager>>

\* next_chunk raises HttpError 500, 502, 503 or 504: sleep, then continue
ChunkRecoverableError ==
    /\ youtube.pc = "next_chunk"
    /\ youtube' = [youtube EXCEPT !.pc = "chunk_sleep", !.last_error = "recoverable"]
    /\ UNCHANGED <<clip_vars, detector_vars, rumble, session, manager>>

\* time.sleep(5) is over, the while loop calls next_chunk again
ChunkSleep ==
    /\ youtube.pc = "chunk_sleep"
    /\ youtube' = [youtube EXCEPT !.pc = "next_chunk"]
    /\ UNCHANGED <<clip_vars, detector_vars, rumble, session, manager>>

\* the mutant of ChunkQuotaError: the quota error is treated as any other
ChunkQuotaErrorRetried ==
    /\ youtube.pc = "next_chunk"
    /\ youtube' = AttemptFailed(youtube, "quota")
    /\ UNCHANGED <<clip_vars, detector_vars, rumble, session, manager>>

\* the upload raises an error whose message mentions the quota
ChunkQuotaError ==
    /\ youtube.pc = "next_chunk"
    /\ youtube' = [youtube EXCEPT !.pc = "returned", !.result = FALSE,
                                  !.youtube_quota_exceeded = TRUE,
                                  !.last_error = "quota"]
    /\ UNCHANGED <<clip_vars, detector_vars, rumble, session, manager>>

\* the upload raises any other error
ChunkOtherError ==
    /\ youtube.pc = "next_chunk"
    /\ youtube' = AttemptFailed(youtube, "other")
    /\ UNCHANGED <<clip_vars, detector_vars, rumble, session, manager>>

\* the backoff sleep is over, the for loop starts the next attempt
Backoff ==
    /\ youtube.pc = "backoff"
    /\ youtube' = [youtube EXCEPT !.pc = "attempt", !.attempt = @ + 1]
    /\ UNCHANGED <<clip_vars, detector_vars, rumble, session, manager>>

NextUploader ==
    \/ YoutubeConstruct
    \/ CallUploadToYoutube
    \/ AttemptUpload
    \/ AttemptPrepareError
    \/ ChunkResponse
    \/ ChunkEmptyResponse
    \/ ChunkRecoverableError
    \/ ChunkSleep
    \/ ChunkQuotaError
    \/ ChunkOtherError
    \/ Backoff

SpecUploader == Init /\ [][NextUploader]_vars

\* the thread that called upload_to_youtube keeps running
SpecUploaderFair == SpecUploader /\ WF_vars(NextUploader)

\* ---------------------------------------------- VideoUploader: Rumble tasks
MaxTasks == 2

\* the task dictionary entry start_rumble_upload_background creates
NewTask(task_id) ==
    [id |-> task_id, status |-> "running", result_url |-> "None",
     error |-> "None", finished_at |-> "None"]

\* d[k] = v of a Python dict
Put(d, k, v) == [x \in DOMAIN d \cup {k} |-> IF x = k THEN v ELSE d[x]]

\* the body of "with self._rumble_tasks_lock" in start_rumble_upload_background;
\* task id "rumble-n" is the number n
Register(r) ==
    [r EXCEPT !._rumble_task_counter = @ + 1,
              !._rumble_tasks = Put(@, r._rumble_task_counter + 1,
                                    NewTask(r._rumble_task_counter + 1))]

\* t.start() and the return of the task id
StartWorker(r, task_id) ==
    [r EXCEPT !.workers = Append(@, [task_id |-> task_id, pc |-> "upload",
                                     url |-> "None"]),
              !.started = Append(@, task_id)]

\* a caller enters start_rumble_upload_background and takes the lock
StartAcquire(c) ==
    /\ rumble.callers[c].pc = "idle"
    /\ rumble.lock = "free"
    /\ rumble._rumble_task_counter < MaxTasks
    /\ rumble' = [rumble EXCEPT !.lock = "held", !.callers[c].pc = "locked"]
    /\ UNCHANGED <<clip_vars, detector_vars, youtube, session, manager>>

\* under the lock: counter, task id, dictionary entry; the lock is released
StartRegister(c) ==
    /\ rumble.callers[c].pc = "locked"
    /\ rumble' = [Register(rumble) EXCEPT
                    !.lock = "free",
                    !.callers[c] = [pc |-> "start_thread",
                                    task_id |-> rumble._rumble_task_counter + 1]]
    /\ UNCHANGED <<clip_vars, detector_vars, youtube, session, manager>>

\* the worker thread is started and the task id returned
StartThread(c) ==
    /\ rumble.callers[c].pc = "start_thread"
    /\ rumble' = [StartWorker(rumble, rumble.callers[c].task_id) EXCEPT
                    !.callers[c].pc = "idle"]
    /\ UNCHANGED <<clip_vars, detector_vars, youtube, session, manager>>

\* _worker: compression and upload_to_rumble return a URL, return False,
\* or raise (Rumble not initialised, compression failed)
WorkerUpload(k) ==
    /\ k \in DOMAIN rumble.workers
    /\ rumble.workers[k].pc = "upload"
    /\ \E url \in {"url", "False", "raised"} :
        rumble' = [rumble EXCEPT !.workers[k].pc = "acquire",
                                 !.workers[k].url = url]
    /\ UNCHANGED <<clip_vars, detector_vars, youtube, session, manager>>

\* _worker takes the lock, in the try block or in the except block
WorkerAcquire(k) ==
    /\ k \in DOMAIN rumble.workers
    /\ rumble.workers[k].pc = "acquire"
    /\ rumble.lock = "free"
    /\ rumble' = [rumble EXCEPT !.lock = "held", !.workers[k].pc = "set_status"]
    /\ UNCHANGED <<clip_vars, detector_vars, youtube, session, manager>>

\* the mutant of WorkerSetStatus: the status is written and the lock let go
\* before result_url and finished_at are written
WorkerSetStatusUnlocked(k) ==
    /\ k \in DOMAIN rumble.workers
    /\ rumble.workers[k].pc = "set_status"
    /\ rumble' = [rumble EXCEPT
        !.lock = "free",
        !.workers[k].pc = "set_result",
        !._rumble_tasks[rumble.workers[k].task_id].status =
            IF rumble.workers[k].url = "url" THEN "success" ELSE "failed"]
    /\ UNCHANGED <<clip_vars, detector_vars, youtube, session, manager>>

\* status = 'success' if url else 'failed'; 'failed' in the except block
WorkerSetStatus(k) ==
    /\ k \in DOMAIN rumble.workers
    /\ rumble.workers[k].pc = "set_status"
    /\ rumble' = [rumble EXCEPT
        !.workers[k].pc = "set_result",
        !._rumble_tasks[rumble.workers[k].task_id].status =
            IF rumble.workers[k].url = "url" THEN "success" ELSE "failed"]
    /\ UNCHANGED <<clip_vars, detector_vars, youtube, session, manager>>

\* result_url = url in the try block, error = str(e) in the except block
WorkerSetResult(k) ==
    /\ k \in DOMAIN rumble.workers
    /\ rumble.workers[k].pc = "set_result"
    /\ rumble' =
        IF rumble.workers[k].url = "raised"
        THEN [rumble EXCEPT
                !.workers[k].pc = "set_finished",
                !._rumble_tasks[rumble.workers[k].task_id].error = "raised"]
        ELSE [rumble EXCEPT
                !.workers[k].pc = "set_finished",
                !._rumble_tasks[rumble.workers[k].task_id].result_url =
                    rumble.workers[k].url]
    /\ UNCHANGED <<clip_vars, detector_vars, youtube, session, manager>>

\* finished_at = now; the with block ends and the thread with it
WorkerSetFinished(k) ==
    /\ k \in DOMAIN rumble.workers
    /\ rumble.workers[k].pc = "set_finished"
    /\ rumble' = [rumble EXCEPT
        !.lock = "free",
        !.workers[k].pc = "done",
        !._rumble_tasks[rumble.workers[k].task_id].finished_at = "now"]
    /\ UNCHANGED <<clip_vars, detector_vars, youtube, session, manager>>

\* get_rumble_task_status(task_id) takes the lock
ReadAcquire ==
    /\ rumble.reader.pc = "idle"
    /\ rumble.lock = "free"
    /\ \E task_id \in 1 .. MaxTasks :
        rumble' = [rumble EXCEPT !.lock = "held",
                                 !.reader = [pc |-> "locked", task_id |-> task_id,
                                             status |-> NoTask]]
    /\ UNCHANGED <<clip_vars, detector_vars, youtube, session, manager>>

\* what get_rumble_task_status returns: a copy of the entry, or None
TaskStatus(r, task_id) ==
    IF task_id \in DOMAIN r._rumble_tasks THEN r._rumble_tasks[task_id] ELSE NoTask

\* the copy is made under the lock and returned
ReadCopy ==
    /\ rumble.reader.pc = "locked"
    /\ rumble' = [rumble EXCEPT
        !.lock = "free",
        !.reader.pc = "idle",
        !.reader.status = TaskStatus(rumble, rumble.reader.task_id)]
    /\ UNCHANGED <<clip_vars, detector_vars, youtube, session, manager>>

WorkerStep(k) ==
    \/ WorkerUpload(k)
    \/ WorkerAcquire(k)
    \/ WorkerSetStatus(k)
    \/ WorkerSetResult(k)
    \/ WorkerSetFinished(k)

NextRumble ==
    \/ \E c \in Callers : StartAcquire(c)
    \/ \E c \in Callers : StartRegister(c)
    \/ \E c \in Callers : StartThread(c)
    \/ \E k \in 1 .. MaxTasks : WorkerStep(k)
    \/ ReadAcquire
    \/ ReadCopy

\* a started thread keeps running; a thread waiting for the lock gets it when
\* the lock is released again and again; a caller finishes its call
SpecRumble ==
    /\ Init
    /\ [][NextRumble]_vars
    /\ \A c \in Callers : WF_vars(StartRegister(c) \/ StartThread(c))
    /\ \A k \in 1 .. MaxTasks :
        /\ WF_vars(WorkerUpload(k) \/ WorkerSetStatus(k) \/ WorkerSetResult(k)
                    \/ WorkerSetFinished(k))
        /\ SF_vars(WorkerAcquire(k))
    /\ WF_vars(ReadCopy)

\* ------------------------------------------------------- main: the session
MaxVideos == 2
MaxClips == 2

\* cfg = config.Config() and the services are initialised
MainConfigure ==
    /\ session.pc = "new"
    /\ \E async \in BOOLEAN, branded \in BOOLEAN, original \in BOOLEAN :
        session' = [session EXCEPT !.pc = "loop",
                                   !.RUMBLE_UPLOAD_ASYNC = async,
                                   !.CLEANUP_DELETE_BRANDED = branded,
                                   !.CLEANUP_DELETE_ORIGINAL_DOWNLOAD = original]
    /\ UNCHANGED <<clip_vars, detector_vars, youtube, rumble, manager>>

\* while processed_count < max_videos: the next video is taken, downloaded,
\* branded and described (steps 1 to 3)
MainNextVideo ==
    /\ session.pc = "loop"
    /\ session.processed_count < MaxVideos
    /\ session' = [session EXCEPT !.pc = "step4", !.processed_count = @ + 1,
                                  !.rumble_task_id = 0, !.clips = 0, !.clip = 0,
                                  !.uploaded_count = 0, !.status_reads = 0,
                                  !.status = "None", !.rumble_success = TRUE,
                                  !.overall_success = FALSE]
    /\ UNCHANGED <<clip_vars, detector_vars, youtube, rumble, manager>>

\* the loop ends: max_videos reached or get_new_videos returned nothing
MainNoVideo ==
    /\ session.pc = "loop"
    /\ session' = [session EXCEPT !.pc = "ended"]
    /\ UNCHANGED <<clip_vars, detector_vars, youtube, rumble, manager>>

\* step 4, asynchronous: start_rumble_upload_background registers the task
\* and starts its worker
MainStartRumble ==
    /\ session.pc = "step4"
    /\ session.RUMBLE_UPLOAD_ASYNC
    /\ rumble.lock = "free"
    /\ rumble' = StartWorker(Register(rumble), rumble._rumble_task_counter + 1)
    /\ session' = [session EXCEPT !.pc = "step5",
                                  !.rumble_task_id = rumble._rumble_task_counter + 1]
    /\ UNCHANGED <<clip_vars, detector_vars, youtube, manager>>

\* step 4 without a task: the synchronous upload, whose result is ignored,
\* or an exception, which is logged
MainNoRumbleTask ==
    /\ session.pc = "step4"
    /\ session' = [session EXCEPT !.pc = "step5"]
    /\ UNCHANGED <<clip_vars, detector_vars, youtube, rumble, manager>>

\* step 5: create_clips returns the list of clips
MainCreateClips ==
    /\ session.pc = "step5"
    /\ \E n \in 0 .. MaxClips :
        session' = [session EXCEPT !.pc = "step6", !.clips = n]
    /\ UNCHANGED <<clip_vars, detector_vars, youtube, rumble, manager>>

\* step 6: one clip is handed to upload_to_youtube, which returns ok
MainUploadClip ==
    /\ session.pc = "step6"
    /\ session.clip < session.clips
    /\ \E ok \in BOOLEAN :
        session' = [session EXCEPT !.clip = @ + 1,
                                   !.uploaded_count = IF ok THEN @ + 1 ELSE @]
    /\ UNCHANGED <<clip_vars, detector_vars, youtube, rumble, manager>>

\* the mutant of MainReadStatus: a task that has not failed counts as success
MainReadStatusOptimistic ==
    /\ session.pc = "step6"
    /\ session.clip = session.clips
    /\ rumble.lock = "free"
    /\ session' =
        IF session.rumble_task_id # 0
        THEN [session EXCEPT
                !.pc = "step8",
                !.status_reads = @ + 1,
                !.status = TaskStatus(rumble, session.rumble_task_id).status,
                !.rumble_success =
                    TaskStatus(rumble, session.rumble_task_id).status # "failed"]
        ELSE [session EXCEPT !.pc = "step8"]
    /\ UNCHANGED <<clip_vars, detector_vars, youtube, rumble, manager>>

\* step 7: rumble_success = True; with a task id the status is read once
\* and rumble_success = status['status'] == 'success'
MainReadStatus ==
    /\ session.pc = "step6"
    /\ session.clip = session.clips
    /\ rumble.lock = "free"
    /\ session' =
        IF session.rumble_task_id # 0
        THEN [session EXCEPT
                !.pc = "step8",
                !.status_reads = @ + 1,
                !.status = TaskStatus(rumble, session.rumble_task_id).status,
                !.rumble_success =
                    TaskStatus(rumble, session.rumble_task_id).status = "success"]
        ELSE [session EXCEPT !.pc = "step8"]
    /\ UNCHANGED <<clip_vars, detector_vars, youtube, rumble, manager>>

\* overall_success as step 8 computes it
OverallSuccess(m) ==
    /\ m.uploaded_count = m.clips
    /\ m.RUMBLE_UPLOAD_ASYNC => m.rumble_success

\* step 8: mark_video_used when overall_success; mark_video_used logs its own
\* exceptions, so the video may stay unmarked
MainMarkUsed ==
    /\ session.pc = "step8"
    /\ \E written \in BOOLEAN :
        session' = [session EXCEPT
            !.pc = "step9",
            !.overall_success = OverallSuccess(session),
            !.used_videos = IF OverallSuccess(session) /\ written
                            THEN @ \cup {session.processed_count} ELSE @]
    /\ UNCHANGED <<clip_vars, detector_vars, youtube, rumble, manager>>

\* the mutant of MainCleanup: the loop goes on after a failed video
MainCleanupContinues ==
    /\ session.pc = "step9"
    /\ session' = [session EXCEPT
        !.pc = "loop",
        !.deleted_branded =
            IF session.overall_success /\ session.CLEANUP_DELETE_BRANDED
            THEN @ \cup {session.processed_count} ELSE @,
        !.deleted_original =
            IF session.overall_success /\ session.CLEANUP_DELETE_ORIGINAL_DOWNLOAD
            THEN @ \cup {session.processed_count} ELSE @]
    /\ UNCHANGED <<clip_vars, detector_vars, youtube, rumble, manager>>

\* step 9 and the end of the loop body: the files are deleted when
\* overall_success and configured; without overall_success the loop breaks
MainCleanup ==
    /\ session.pc = "step9"
    /\ session' = [session EXCEPT
        !.pc = IF session.overall_success THEN "loop" ELSE "ended",
        !.deleted_branded =
            IF session.overall_success /\ session.CLEANUP_DELETE_BRANDED
            THEN @ \cup {session.processed_count} ELSE @,
        !.deleted_original =
            IF session.overall_success /\ session.CLEANUP_DELETE_ORIGINAL_DOWNLOAD
            THEN @ \cup {session.processed_count} ELSE @]
    /\ UNCHANGED <<clip_vars, detector_vars, youtube, rumble, manager>>

\* a step of the pipeline raises and the user answers 'q', or the outer
\* handler is reached: the loop is left
MainGiveUp ==
    /\ session.pc \in {"step4", "step5", "step6"}
    /\ session' = [session EXCEPT !.pc = "ended"]
    /\ UNCHANGED <<clip_vars, detector_vars, youtube, rumble, manager>>

NextMain ==
    \/ MainConfigure
    \/ MainNextVideo
    \/ MainNoVideo
    \/ MainStartRumble
    \/ MainNoRumbleTask
    \/ MainCreateClips
    \/ MainUploadClip
    \/ MainReadStatus
    \/ MainMarkUsed
    \/ MainCleanup
    \/ MainGiveUp
    \/ \E k \in 1 .. MaxVideos : WorkerStep(k)

SpecMain == Init /\ [][NextMain]_vars

\* ------------------------------------------------------------ StateManager
MaxSignals == 2

\* the methods of StateManager the main thread calls to update the state
Methods ==
    {"start_processing", "start_video_processing", "update_processing_step",
     "complete_video_processing", "complete_processing"}

\* a signal handler has interrupted the main thread and has not returned;
\* Python runs the handler in the main thread, on top of the interrupted code
HandlerRunning == manager.handler \in {"entered", "locked", "saving"}

\* __init__: flags, lock, signal handlers installed; _load_state merges the
\* state file of an earlier session, when there is one, into current_state
ManagerConstruct ==
    /\ manager.pc = "new"
    /\ \E saved \in {"None", "idle", "processing", "shutting_down", "completed"} :
        manager' = [manager EXCEPT !.pc = "idle", !.saved_status = saved,
                                   !.status = IF saved = "None" THEN "idle" ELSE saved]
    /\ UNCHANGED <<clip_vars, detector_vars, youtube, rumble, session>>

\* the main thread calls a method and enters its "with self.state_lock"
MethodEnter ==
    /\ manager.pc = "idle"
    /\ ~HandlerRunning
    /\ manager.state_lock = "free"
    /\ \E m \in Methods :
        manager' = [manager EXCEPT !.pc = "updating", !.method = m,
                                   !.state_lock = "held"]
    /\ UNCHANGED <<clip_vars, detector_vars, youtube, rumble, session>>

\* what the method writes to current_state and to shutdown_requested
Updated(m) ==
    CASE m.method = "start_processing" ->
            [m EXCEPT !.status = "processing", !.current_step = "None",
                      !.shutdown_requested = FALSE]
      [] m.method = "start_video_processing" ->
            [m EXCEPT !.current_step = "starting"]
      [] m.method = "update_processing_step" ->
            [m EXCEPT !.current_step = "step"]
      [] m.method = "complete_video_processing" ->
            [m EXCEPT !.current_step = "completed"]
      [] m.method = "complete_processing" ->
            [m EXCEPT !.status = "completed", !.current_step = "None"]

\* the body of the method up to _save_state, under the lock
MethodUpdate ==
    /\ manager.pc = "updating"
    /\ ~HandlerRunning
    /\ manager' = [Updated(manager) EXCEPT !.pc = "saving"]
    /\ UNCHANGED <<clip_vars, detector_vars, youtube, rumble, session>>

\* _save_state writes current_state; the with block ends, the method returns
MethodSave ==
    /\ manager.pc = "saving"
    /\ ~HandlerRunning
    /\ manager' = [manager EXCEPT !.pc = "idle", !.method = "None",
                                  !.state_lock = "free",
                                  !.saved_status = manager.status]
    /\ UNCHANGED <<clip_vars, detector_vars, youtube, rumble, session>>

\* SIGINT or SIGTERM is delivered: the main thread is interrupted where it
\* is and _signal_handler starts
SignalDelivered ==
    /\ manager.pc # "new"
    /\ ~HandlerRunning
    /\ manager.signals < MaxSignals
    /\ manager' = [manager EXCEPT !.handler = "entered", !.signals = @ + 1]
    /\ UNCHANGED <<clip_vars, detector_vars, youtube, rumble, session>>

\* _signal_handler: "with self.state_lock" on a threading.Lock blocks until
\* the lock is free
HandlerAcquire ==
    /\ manager.handler = "entered"
    /\ manager.state_lock = "free"
    /\ manager' = [manager EXCEPT !.handler = "locked", !.state_lock = "held"]
    /\ UNCHANGED <<clip_vars, detector_vars, youtube, rumble, session>>

\* shutdown_requested = True; current_state['status'] = 'shutting_down'
HandlerSet ==
    /\ manager.handler = "locked"
    /\ manager' = [manager EXCEPT !.handler = "saving",
                                  !.shutdown_requested = TRUE,
                                  !.status = "shutting_down"]
    /\ UNCHANGED <<clip_vars, detector_vars, youtube, rumble, session>>

\* _save_state; the with block ends and the handler returns
HandlerSave ==
    /\ manager.handler = "saving"
    /\ manager' = [manager EXCEPT !.handler = "returned",
                                  !.state_lock = "free",
                                  !.saved_status = manager.status]
    /\ UNCHANGED <<clip_vars, detector_vars, youtube, rumble, session>>

NextManager ==
    \/ ManagerConstruct
    \/ MethodEnter
    \/ MethodUpdate
    \/ MethodSave
    \/ SignalDelivered
    \/ HandlerAcquire
    \/ HandlerSet
    \/ HandlerSave

SpecManager == Init /\ [][NextManager]_vars

\* the main thread keeps running: the handler it executes, and the method it
\* is inside of, take their next step whenever they can
SpecManagerFair ==
    /\ SpecManager
    /\ WF_vars(HandlerAcquire \/ HandlerSet \/ HandlerSave)
    /\ WF_vars(MethodUpdate \/ MethodSave)

\* ------------------------------------------------------------------ claims
Returned == pc = "done"
Duration(c) == c[2] - c[1]
ClipsOf(cs) == {cs[k] : k \in 1..Len(cs)}

\* C1: any two returned clips a, b with a.start < b.start satisfy
\* b.start - a.end >= 0 and b.start - a.start >= MIN_GAP_SECONDS (48 s).
C1_NonOverlap ==
    Returned =>
        \A a \in ClipsOf(result), b \in ClipsOf(result) :
            a[1] < b[1] => (b[1] - a[2] >= 0 /\ b[1] - a[1] >= min_gap_seconds)

\* C2: every returned clip lasts between MIN_CLIP_SECONDS and MAX_CLIP_SECONDS.
C2_DurationBounds ==
    Returned =>
        \A c \in ClipsOf(result) :
            MIN_CLIP_SECONDS <= Duration(c) /\ Duration(c) <= MAX_CLIP_SECONDS

\* a run that returned a clip cut to the target length from a longer snapped
\* span together with a re-centred clip, which starts at no segment boundary
C2_Witness ==
    /\ Returned
    /\ \E a \in ClipsOf(result), b \in ClipsOf(result) :
          /\ Duration(a) = TARGET_CLIP_SECONDS
          /\ \E k \in 1..Len(segments) :
                segments[k].start = a[1] /\ segments[k].end - a[1] > MAX_CLIP_SECONDS
          /\ \A k \in 1..Len(segments) : segments[k].start # b[1]

\* C3: every returned clip lies within [0, videoDuration], videoDuration being
\* the largest segment end.
C3_Containment ==
    (Returned /\ segments # <<>>) =>
        \A c \in ClipsOf(result) : 0 <= c[1] /\ c[2] <= video_duration(segments)

\* a returned clip that was re-centred and cut off at the end of the video:
\* it ends at videoDuration and starts at no segment boundary
C3_Witness ==
    /\ Returned
    /\ segments # <<>>
    /\ \E c \in ClipsOf(result) :
          /\ c[2] = video_duration(segments)
          /\ \A k \in 1..Len(segments) : segments[k].start # c[1]
          /\ Duration(c) < TARGET_CLIP_SECONDS

\* C4: the returned clip list is sorted by start time ascending.
C4_SortedByStart ==
    Returned => \A k \in 1..(Len(result) - 1) : result[k][1] <= result[k + 1][1]

\* two candidates processed latest-first, both accepted
C4_Witness ==
    /\ Returned
    /\ Len(quality_windows) = 2
    /\ quality_windows[1].start > quality_windows[2].start
    /\ Len(result) = 2
    /\ result[1][1] < result[2][1]

\* C5: a transcript without segments or without words makes detect_highlights
\* return an empty list, without raising and without any embedding request;
\* select_clips on an empty segment list returns an empty list.
C5_EmptyInput ==
    /\ (entry = "detect_highlights" /\ WordTimes(segments) = <<>>) =>
          (pc \in {"split", "done"} /\ result = <<>> /\ requests = <<>>)
    /\ (entry = "select_clips" /\ segments = <<>>) =>
          (pc \in {"select", "done"} /\ result = <<>>)

\* detect_highlights has returned on a transcript whose segments hold no word
C5_Witness ==
    /\ Returned
    /\ entry = "detect_highlights"
    /\ Len(segments) = MaxSegs
    /\ \A k \in 1..Len(segments) : segments[k].ntoks = 0

\* C6: for a non-empty list of scored windows the quality candidates of
\* select_clips are never empty.
C6_PoolNeverEmpty ==
    (pc = "loop" /\ windows # <<>>) => quality_windows # <<>>

\* no window reaches mean + 0.5 * std, the candidates come from the top-20% path
C6_Witness ==
    /\ pc = "loop"
    /\ windows # <<>>
    /\ \A k \in 1..Len(windows) : ~AboveThreshold(windows[k], windows)
    /\ quality_windows # <<>>

\* the two candidates have the same score and start 4 s apart
NearIdenticalPair ==
    /\ Len(quality_windows) = 2
    /\ quality_windows[1].score = quality_windows[2].score
    /\ quality_windows[2].start - quality_windows[1].start = 4

\* C7: of two candidates with identical scores starting 4 s apart at most one
\* produces a clip.
C7_OnlyOneOfNearPair ==
    (Returned /\ segments # <<>> /\ windows # <<>> /\ NearIdenticalPair) => Len(result) <= 1

\* C8: for a transcript of total duration 40 s select_clips returns at most
\* one clip and does not raise.
C8_ShortVideo ==
    (segments # <<>> /\ video_duration(segments) = 40) =>
        /\ Len(selected_clips) <= 1
        /\ Len(result) <= 1
        /\ (entry = "select_clips" => pc # "raised")

\* a 40 s video with two candidates, one clip returned
C8_Witness ==
    /\ Returned
    /\ segments # <<>>
    /\ video_duration(segments) = 40
    /\ Len(quality_windows) >= 2
    /\ Len(result) = 1

ScorerReturned == entry = "detect_highlights" /\ pc \in {"select", "loop", "done"} /\ windows # <<>>

\* C10 as stated: every run of detect_highlights that reaches the scorer makes
\* exactly two requests, the prompts and then all window texts.
C10_ExactlyTwoRequests ==
    (entry = "detect_highlights" /\ (pc = "raised" \/ ScorerReturned)) =>
        requests = <<PromptRequest, TextRequest(windows)>>

\* C10 amended: a run whose scorer returns has made exactly the two batched
\* requests in that order; a run whose scorer raises has made a prefix of
\* them; a run that never reaches the scorer has made none.
C10_BatchedRequests ==
    entry = "detect_highlights" =>
        /\ ScorerReturned => requests = <<PromptRequest, TextRequest(windows)>>
        /\ pc = "raised" =>
              \E n \in 0..2 : requests = SubSeq(<<PromptRequest, TextRequest(windows)>>, 1, n)
        /\ pc \in {"split", "score"} => requests = <<>>
        /\ (Returned /\ windows = <<>>) => requests = <<>>

\* detect_highlights has returned after scoring three windows or more
C10_Witness ==
    /\ Returned
    /\ entry = "detect_highlights"
    /\ Len(windows) >= 3
    /\ Len(requests) = 2

\* C11: when the embedding collaborator is unavailable detect_highlights
\* raises and returns nothing; it returns an empty list only when the
\* transcript or the window list was empty, or when both requests were
\* made, every candidate was processed and no clip qualified.
C11_FailureIsNotEmpty ==
    entry = "detect_highlights" =>
        /\ (pc = "raised" => (result = <<>> /\ Len(requests) <= 2 /\ windows # <<>>))
        /\ (Returned /\ result = <<>>) =>
              \/ segments = <<>>
              \/ windows = <<>>
              \/ /\ requests = <<PromptRequest, TextRequest(windows)>>
                 /\ i = Len(quality_windows)
                 /\ selected_clips = <<>>

\* the prompt request failed: one request was made and the call raised
C11_Witness ==
    /\ entry = "detect_highlights"
    /\ pc = "raised"
    /\ requests = <<PromptRequest>>

\* sum of f(score) over the windows
ScoreTotal(ws, f(_)) ==
    LET RECURSIVE Upto(_)
        Upto(k) == IF k = 0 THEN 0 ELSE f(ws[k].score) + Upto(k - 1)
    IN  Upto(Len(ws))

\* 2 * n * (score - mean) >= n * std, both sides non-negative, squared
ReachesThreshold(w, ws) ==
    LET n == Len(ws)
        total == ScoreTotal(ws, LAMBDA x : x)
        squares == ScoreTotal(ws, LAMBDA x : x * x)
    IN  /\ n * w.score >= total
        /\ (2 * (n * w.score - total)) * (2 * (n * w.score - total))
               >= n * squares - total * total

\* C16: the candidates are exactly the windows whose score is at least
\* mean + 0.5 * std (population standard deviation) of all scores; if and
\* only if no window reaches it, the candidates are the max(1, n \div 5)
\* highest-scoring windows.
C16_ThresholdRule ==
    (pc = "loop" /\ windows # <<>>) =>
        LET n == Len(windows)
            all == {windows[k] : k \in 1..n}
            above == {w \in all : ReachesThreshold(w, windows)}
            cands == {quality_windows[k] : k \in 1..Len(quality_windows)}
        IN  /\ Cardinality(cands) = Len(quality_windows)
            /\ cands \subseteq all
            /\ IF above # {}
               THEN cands = above
               ELSE /\ Cardinality(cands) = Max(1, n \div 5)
                    /\ \A a \in cands, b \in all \ cands : a.score >= b.score

\* ten windows or more, none reaches the threshold: the two best are taken
C16_Witness ==
    /\ pc = "loop"
    /\ Len(windows) >= 10
    /\ \A k \in 1..Len(windows) : ~ReachesThreshold(windows[k], windows)
    /\ Len(quality_windows) = 2

ChronologicalWindows ==
    \A k \in 1..(Len(windows) - 1) : windows[k].start < windows[k + 1].start

\* C17: given chronological windows, the loop considers the candidates in
\* descending score order and candidates of equal score in ascending start
\* order, on the threshold path and on the top-20% path alike.
C17_GreedyOrder ==
    (pc = "loop" /\ ChronologicalWindows) =>
        \A k \in 1..(Len(quality_windows) - 1) :
            \/ quality_windows[k].score > quality_windows[k + 1].score
            \/ /\ quality_windows[k].score = quality_windows[k + 1].score
               /\ quality_windows[k].start < quality_windows[k + 1].start

\* top-20% path: two candidates of equal score, both handled, earlier one first
C17_Witness ==
    /\ pc = "loop"
    /\ ChronologicalWindows
    /\ \A k \in 1..Len(windows) : ~ReachesThreshold(windows[k], windows)
    /\ i = Len(quality_windows)
    /\ Len(quality_windows) = 2
    /\ quality_windows[1].score = quality_windows[2].score
    /\ quality_windows[1].start < quality_windows[2].start

\* 48 s between t and every clip, on one side or the other
KeepsGap(t, clips) ==
    \A k \in 1..Len(clips) :
        t[1] - clips[k][2] >= 48 \/ clips[k][1] - t[2] >= 48

\* C18: a candidate is accepted only if, for every clip accepted so far, its
\* tentative clip starts at least 48 s after that clip's end or ends at
\* least 48 s before that clip's start; a candidate failing this is
\* rejected and the accepted clips stay as they were.
C18_GapCheck ==
    [][(pc = "loop" /\ i' = i + 1) =>
          LET t == TentativeClip(quality_windows[i + 1], video_duration(segments))
          IN  /\ selected_clips' # selected_clips => KeepsGap(t, selected_clips)
              /\ ~KeepsGap(t, selected_clips) => selected_clips' = selected_clips]_vars

\* the first candidate gave the one accepted clip, the second was too close to it
C18_Witness ==
    /\ pc = "loop"
    /\ i = 2
    /\ Len(selected_clips) = 1
    /\ selected_clips = ClipsFor(quality_windows[1], segments, <<>>)
    /\ ~KeepsGap(TentativeClip(quality_windows[2], video_duration(segments)), selected_clips)

\* C19: the tentative clip of every candidate lies within [0, videoDuration]
\* and, whenever videoDuration >= 40, is exactly 40 s long: near the end of
\* the video it is shifted back, not shortened.
\* Stated for candidates that lie inside the video.
C19_TentativeClipLength ==
    (pc = "loop" /\ i > 0 /\ quality_windows[i].end <= video_duration(segments)) =>
        LET vd == video_duration(segments)
            t == TentativeClip(quality_windows[i], vd)
        IN  /\ 0 <= t[1] /\ t[1] <= t[2] /\ t[2] <= vd
            /\ vd >= TARGET_CLIP_SECONDS => t[2] - t[1] = TARGET_CLIP_SECONDS

\* the span the candidate handled by this step was snapped to, and the clip
\* the step appended
SnappedSpan == SnapToSegments(TentativeClip(quality_windows[i + 1], video_duration(segments)), segments)
Emitted == selected_clips'[Len(selected_clips')]
StepEmits == pc = "loop" /\ i' = i + 1 /\ Len(selected_clips') = Len(selected_clips) + 1

\* C20: a snapped span longer than 60 s is emitted with the snapped start
\* and shortened from the end; a snapped span shorter than 30 s is emitted
\* re-centred on the snapped midpoint and extended to the target length, 40 s.
C20_DurationClamp ==
    [][StepEmits =>
          /\ SnappedSpan[2] - SnappedSpan[1] > 60 =>
                /\ Emitted[1] = SnappedSpan[1]
                /\ Emitted[2] < SnappedSpan[2]
          /\ SnappedSpan[2] - SnappedSpan[1] < 30 =>
                /\ Emitted[1] + Emitted[2] = SnappedSpan[1] + SnappedSpan[2]
                /\ Emitted[2] - Emitted[1] = 40]_vars

\* C20 (amended): a snapped span longer than 60 s is emitted as the 40 s
\* from the snapped start; a snapped span shorter than 30 s is emitted as
\* the 40 s around the snapped midpoint cut to [0, videoDuration], that is
\* from max(0, mid - 20) to min(videoDuration, start + 40), and only if
\* what is left is at least 30 s long.
C20_ClampWithinVideo ==
    [][StepEmits =>
          /\ SnappedSpan[2] - SnappedSpan[1] > 60 =>
                Emitted = <<SnappedSpan[1], SnappedSpan[1] + 40>>
          /\ SnappedSpan[2] - SnappedSpan[1] < 30 =>
                LET mid == (SnappedSpan[1] + SnappedSpan[2]) \div 2
                    from == Max(0, mid - 20)
                IN  /\ Emitted = <<from, Min(video_duration(segments), from + 40)>>
                    /\ Emitted[2] - Emitted[1] >= 30]_vars

\* the only candidate snapped to a span under 30 s at the end of the video;
\* the clip emitted for it stops at the video end and is shorter than 40 s
C20_Witness ==
    /\ pc = "loop"
    /\ i = 1
    /\ Len(selected_clips) = 1
    /\ LET vd == video_duration(segments)
           sn == SnapToSegments(TentativeClip(quality_windows[1], vd), segments)
       IN  /\ sn[2] - sn[1] < 30
           /\ selected_clips[1][2] = vd
           /\ selected_clips[1][2] - selected_clips[1][1] < 40

DetectReturned == hd_entry = "detect" /\ hd_pc = "done"

\* C12: for a video of 60 s or more, when the AI, audio and motion sources
\* all fail or return nothing, detect returns (it has no raising exit) a
\* non-empty list consisting only of 'fallback' highlights.
C12_TotalFailureFallback ==
    (DetectReturned /\ hd_duration >= 60 /\ highlights = <<>>) =>
        /\ final_highlights # <<>>
        /\ \A k \in 1..Len(final_highlights) : final_highlights[k].type = "fallback"

\* no source delivered anything for a ten-minute video
C12_Witness ==
    /\ DetectReturned
    /\ hd_duration = 600
    /\ highlights = <<>>
    /\ Len(final_highlights) = 6

Fallbacks(hs) == {k \in 1..Len(hs) : hs[k].type = "fallback"}

\* C13: with desiredCount = min(100, max(8, videoDuration \div 120)),
\* _process_highlights admits fallback windows only when the number of
\* valid detected highlights is below desiredCount, and no more than the
\* difference; when the number is at or above desiredCount neither the
\* topped-up list nor the returned list holds a 'fallback' highlight.
C13_BackfillOnlyWhenShort ==
    [][(hd_pc = "top_up" /\ hd_pc' = "done") =>
          LET desiredCount == Min(100, Max(8, hd_duration \div 120))
              detected == Len(valid_highlights)
          IN  /\ Fallbacks(valid_highlights) = {}
              /\ Cardinality(Fallbacks(valid_highlights')) <= Max(0, desiredCount - detected)
              /\ detected >= desiredCount =>
                    /\ Fallbacks(valid_highlights') = {}
                    /\ Fallbacks(final_highlights') = {}]_vars

\* nine detected highlights for a desiredCount of eight: no fallback among them
C13_Witness ==
    /\ hd_pc = "done"
    /\ hd_entry \in {"detect", "_process_highlights"}
    /\ highlights # <<>>
    /\ Len(valid_highlights) = 9
    /\ Fallbacks(valid_highlights) = {}
    /\ Len(final_highlights) = 8

\* C14: for every video duration and every list of raw candidates, the
\* empty list included, _process_highlights returns at most
\* desiredCount = min(100, max(8, videoDuration \div 120)) highlights.
C14_SizeCap ==
    (hd_pc = "done" /\ (\/ hd_entry = "_process_highlights"
                         \/ (hd_entry = "detect" /\ hd_duration >= 60))) =>
        Len(final_highlights) <= Min(100, Max(8, hd_duration \div 120))

WindowsBuilt == entry = "detect_highlights" /\ pc \in {"score", "embed_texts", "select", "loop", "raised"}
SplitReturned ==
    entry = "detect_highlights" /\ pc \notin {"idle", "split"} /\ segments # <<>>
WordCovered(t) == \E k \in 1..Len(windows) : windows[k].start <= t /\ t < windows[k].end

\* C21: for every transcript with at least one word, every pseudo-word
\* event, from the first word time to the last both included, lies in at
\* least one window of split_into_windows, so such a transcript never
\* yields an empty window list.
C21_WindowCoverage ==
    (SplitReturned /\ WordTimes(segments) # <<>>) =>
        /\ windows # <<>>
        /\ \A k \in 1..Len(WordTimes(segments)) : WordCovered(WordTimes(segments)[k])

\* C21 (amended): when the first and the last word time differ, every
\* pseudo-word event, the last included, lies in at least one window; when
\* they are equal (a single word, or all words at one instant) the cursor
\* never starts and the window list is empty.
C21_CoverageBetweenDistinctWords ==
    (SplitReturned /\ WordTimes(segments) # <<>>) =>
        LET words == WordTimes(segments)
        IN  IF words[1] < words[Len(words)]
            THEN /\ windows # <<>>
                 /\ \A k \in 1..Len(words) : WordCovered(words[k])
            ELSE windows = <<>>

\* four words over 100 s: windows were built and the last word, exactly
\* WINDOW_SIZE after a window start, is covered by the last window only
C21_Witness ==
    /\ WindowsBuilt
    /\ Len(WordTimes(segments)) = 4
    /\ LET words == WordTimes(segments)
       IN  /\ words[4] - words[1] >= 100
           /\ WordCovered(words[4])
           /\ Cardinality({k \in 1..Len(windows) : windows[k].start <= words[4]
                                                    /\ words[4] < windows[k].end}) = 1

EvenlySpacedReturned == hd_pc = "done" /\ hd_entry = "_generate_evenly_spaced_highlights"

\* C22: for every duration d > 0 and the defaults (length 28, stride 110)
\* the windows of _generate_evenly_spaced_highlights start at 10, 120,
\* 230, ..., are exactly 28 s long, and satisfy 10 <= start <= d - 28 - 5,
\* so each ends at or before d - 5.
C22_BackfillSpan ==
    (EvenlySpacedReturned /\ hd_duration > 0) =>
        \A k \in 1..Len(final_highlights) :
            /\ final_highlights[k].start = 10 + 110 * (k - 1)
            /\ final_highlights[k].end - final_highlights[k].start = 28
            /\ final_highlights[k].start <= hd_duration - 28 - 5
            /\ final_highlights[k].end <= hd_duration - 5

\* C22 (amended): for every d > 0 the windows start at 10, 120, 230, ...
\* up to max(10, d - 33) and are exactly 28 s long, and there is at least
\* one; for d >= 43 every window ends at or before d - 5, for d < 43 the
\* only window is (10, 38), which ends after d - 5.
C22_BackfillSpanFrom43 ==
    (EvenlySpacedReturned /\ hd_duration > 0) =>
        /\ final_highlights # <<>>
        /\ \A k \in 1..Len(final_highlights) :
              /\ final_highlights[k].start = 10 + 110 * (k - 1)
              /\ final_highlights[k].end - final_highlights[k].start = 28
              /\ final_highlights[k].start <= Max(10, hd_duration - 33)
        /\ 10 + 110 * Len(final_highlights) > Max(10, hd_duration - 33)
        /\ IF hd_duration >= 43
           THEN \A k \in 1..Len(final_highlights) : final_highlights[k].end <= hd_duration - 5
           ELSE Len(final_highlights) = 1 /\ final_highlights[1].end > hd_duration - 5

\* a 40 s video: the one window (10, 38) ends after 35
C22_Witness ==
    /\ EvenlySpacedReturned
    /\ hd_duration = 40
    /\ final_highlights = <<Highlight(10, 38, 45, "fallback")>>

\* seconds two highlights have in common (negative when they are apart)
OverlapSeconds(a, b) == Min(a.end, b.end) - Max(a.start, b.start)
Elements(hs) == {hs[k] : k \in 1..Len(hs)}
Admitted(hs) == {h \in Elements(hs) : h.type = "fallback"}

\* the windows backfill can draw on: 28 s long, from 10 s on every 110 s,
\* the last one starting at or before max(10, d - 33); none for d <= 0
Supply(d) ==
    IF d <= 0 THEN {}
    ELSE {Highlight(10 + 110 * k, 38 + 110 * k, 45, "fallback")
             : k \in 0..((Max(10, d - 33) - 10) \div 110)}

MergeReturned == hd_pc = "done" /\ hd_entry = "_merge_overlapping_highlights"
Inside(h, o) == o.start <= h.start /\ h.end <= o.end

\* C24: for raw highlights with start <= end, _merge_overlapping_highlights
\* returns highlights sorted by start, each starting more than 10 s after
\* the previous one ends; every input highlight lies inside exactly one
\* output highlight, and each output's score is the maximum score of the
\* inputs merged into it.
C24_MergePostcondition ==
    (MergeReturned /\ \A k \in 1..Len(highlights) : highlights[k].start <= highlights[k].end) =>
        /\ \A k \in 1..(Len(final_highlights) - 1) :
              /\ final_highlights[k].start <= final_highlights[k + 1].start
              /\ final_highlights[k + 1].start > final_highlights[k].end + 10
        /\ \A k \in 1..Len(highlights) :
              Cardinality({j \in 1..Len(final_highlights) :
                              Inside(highlights[k], final_highlights[j])}) = 1
        /\ \A j \in 1..Len(final_highlights) :
              LET parts == {k \in 1..Len(highlights) : Inside(highlights[k], final_highlights[j])}
              IN  /\ parts # {}
                  /\ \A k \in parts : highlights[k].score <= final_highlights[j].score
                  /\ \E k \in parts : highlights[k].score = final_highlights[j].score

\* three sources overlap: an AI window, the audio window and motion windows
\* became one merged highlight with the AI score, another highlight stays apart
C24_Witness ==
    /\ MergeReturned
    /\ Len(highlights) >= 4
    /\ Len(final_highlights) = 2
    /\ final_highlights[1].type = "merged"
    /\ final_highlights[1].score = 90
    /\ \E k \in 1..Len(highlights) :
          highlights[k].score = 70 /\ Inside(highlights[k], final_highlights[1])

\* a call of upload_to_youtube is between its entry and its return
InUpload == youtube.pc \in {"attempt", "next_chunk", "chunk_sleep", "backoff"}

\* C27 (quota flag is sticky): the call of upload_to_youtube that observes a
\* quota error returns False at once, without another attempt;
\* youtube_quota_exceeded, once set, stays set for the rest of the session;
\* and every later call returns False without any upload attempt.
C27_QuotaFlagSticky ==
    /\ [](youtube.last_error = "quota" =>
            /\ youtube.youtube_quota_exceeded
            /\ youtube.pc = "returned"
            /\ youtube.result = FALSE)
    /\ [][youtube.youtube_quota_exceeded =>
            /\ youtube'.youtube_quota_exceeded
            /\ youtube'.calls > youtube.calls =>
                /\ youtube'.pc = "returned"
                /\ youtube'.result = FALSE
                /\ youtube'.upload_attempts = 0]_vars

\* a call made after the quota error was observed has returned
C27_Witness ==
    /\ youtube.youtube_quota_exceeded
    /\ youtube.last_error = "quota"
    /\ youtube.calls >= 2
    /\ youtube.pc = "returned"
    /\ youtube.result = FALSE
    /\ youtube.upload_attempts = 0

\* C28 (bounded retry): every call of upload_to_youtube makes at most
\* max(1, YOUTUBE_UPLOAD_MAX_RETRIES) upload attempts and terminates,
\* returning True or False, for every pattern of failures, a server that
\* keeps answering 500, 502, 503 or 504 included.
C28_BoundedRetry ==
    /\ [](youtube.upload_attempts <= attempts)
    /\ [](youtube.pc = "returned" => youtube.result \in BOOLEAN)
    /\ InUpload ~> youtube.pc = "returned"

\* the status of a task is 'success' or 'failed'
Terminal(task) == task.status \in {"success", "failed"}

\* finished_at is set exactly when the status is terminal
FinishedWhenTerminal(task) == Terminal(task) <=> task.finished_at # "None"

\* one step of the task dictionary: a new entry is 'running' with no
\* finished_at, no entry disappears, and a status changes only from 'running'
\* to a terminal one
LifecycleStep ==
    /\ DOMAIN rumble._rumble_tasks \subseteq DOMAIN rumble'._rumble_tasks
    /\ \A task_id \in DOMAIN rumble'._rumble_tasks :
        IF task_id \in DOMAIN rumble._rumble_tasks
        THEN rumble'._rumble_tasks[task_id].status # rumble._rumble_tasks[task_id].status =>
                /\ rumble._rumble_tasks[task_id].status = "running"
                /\ Terminal(rumble'._rumble_tasks[task_id])
        ELSE rumble'._rumble_tasks[task_id] = NewTask(task_id)

AllUploadedAndRumbleOk ==
    /\ session.clip = session.clips
    /\ session.uploaded_count = session.clips
    /\ session.rumble_task_id # 0 => session.status = "success"

\* C25 (mark-used gating): main marks a source video used, and deletes its
\* branded file or its original download, only when every created clip was
\* uploaded to YouTube successfully and, if a background Rumble task was
\* started, the status read at the check was 'success'; the video marked or
\* cleaned is the one being processed.
C25_MarkUsedGating ==
    [][/\ session'.used_videos # session.used_videos =>
            /\ AllUploadedAndRumbleOk
            /\ session'.used_videos = session.used_videos \cup {session.processed_count}
       /\ session'.deleted_branded # session.deleted_branded =>
            /\ AllUploadedAndRumbleOk
            /\ session'.deleted_branded =
                    session.deleted_branded \cup {session.processed_count}
       /\ session'.deleted_original # session.deleted_original =>
            /\ AllUploadedAndRumbleOk
            /\ session'.deleted_original =
                    session.deleted_original \cup {session.processed_count}]_vars

\* a video with two uploaded clips and a Rumble task read as 'success' is
\* marked used and both its files are deleted
C25_Witness ==
    /\ session.processed_count \in session.used_videos
    /\ session.processed_count \in session.deleted_branded
    /\ session.processed_count \in session.deleted_original
    /\ session.rumble_task_id # 0
    /\ session.status = "success"
    /\ session.clips = 2
    /\ session.uploaded_count = 2

\* C26 (unfinished background upload counts as failure): main reads the
\* Rumble task status once per video; if it reads 'running', the video is
\* never marked used, none of its files is deleted and no other video is
\* processed, whatever the worker does afterwards.
C26_RunningCountsAsFailure ==
    /\ [](session.status_reads <= 1)
    /\ [](session.status = "running" =>
            /\ session.pc \in {"step8", "step9", "ended"}
            /\ session.processed_count \notin session.used_videos
            /\ session.processed_count \notin session.deleted_branded
            /\ session.processed_count \notin session.deleted_original)
    /\ [][session.status = "running" =>
            /\ session'.status = "running"
            /\ session'.processed_count = session.processed_count]_vars

\* every clip was uploaded, the status read was 'running', the loop has
\* stopped, and the worker has succeeded since
C26_Witness ==
    /\ session.status = "running"
    /\ session.pc = "ended"
    /\ session.clips > 0
    /\ session.uploaded_count = session.clips
    /\ session.processed_count < MaxVideos
    /\ rumble._rumble_tasks[session.rumble_task_id].status = "success"

\* C30 (graceful shutdown request): a shutdown signal delivered at any
\* point, also while the interrupted main thread is inside a state update
\* holding state_lock, is handled to completion: the handler returns, with
\* shutdown_requested True and the saved status 'shutting_down', and
\* should_shutdown() stays True until the next start_processing.
C30_GracefulShutdown ==
    /\ manager.handler = "entered" ~> manager.handler = "returned"
    /\ [][manager.handler # "returned" /\ manager'.handler = "returned" =>
            /\ manager'.shutdown_requested
            /\ manager'.saved_status = "shutting_down"]_vars
    /\ [][manager.shutdown_requested /\ ~manager'.shutdown_requested =>
            manager.method = "start_processing"]_vars

====
